---- MODULE Spec2Model ----
(***************************************************************************)
(* Model of skydns server/dnssec.go: the single-flight coordinator         *)
(* (single.Do), the signature cache and Server.sign, the RRset grouper     *)
(* (rrSets), the fingerprint (sigCache.key), the truncation flag of sign   *)
(* and the denial index (denialList, addServiceNSEC, removeServiceNSEC,    *)
(* Server.newNSEC).                                                        *)
(*                                                                         *)
(* Goroutines are the members of Procs.  Every statement of single.Do that *)
(* another goroutine can observe is an action of its own; a section run    *)
(* under g's mutex is one action, taken after the action that acquires the *)
(* mutex.  Once the Go runtime has aborted the process (fatal) no          *)
(* goroutine takes a step.                                                 *)
(***************************************************************************)
EXTENDS Integers, Sequences, FiniteSets, TLC

\* ------------------------------------------------------------------ bounds
\* Direct calls of single.Do made over a run of SpecDo.
MaxCalls == 3

\* Service events (addServiceNSEC, removeServiceNSEC) over a run of SpecNSEC.
MaxEvents == 3
\* Direct calls of denialList.insert and denialList.remove over a run of
\* SpecList.
MaxOps == 4
\* Labels a query name has below the zone apex, at most.
MaxQLabels == 5
\* Records in a list handed to rrSets, at most.
MaxRRs == 3
\* Records in an RRset handed to sigCache.key, at most.
MaxKeyRRs == 1
\* Calls of Server.sign made over a run of SpecSign.
MaxSigns == 2

\* The goroutines, and those of them that serve requests with Server.sign.
Procs == {1, 2, 3}
SignProcs == {1, 2}

\* Time is counted in hours.  TwoHours, Day and Week are the durations of
\* sign: 2 * time.Hour, 24 * time.Hour and 7 * 24 * time.Hour.
Hour == 1
TwoHours == 2
Day == 24
Week == 168
\* The clock at the start, and how far a reading of the clock may be from
\* the reading before it: no time, a day, a week, and the first hour at
\* which a signature made at the earlier reading is no longer valid 24
\* hours before now.
Epoch == 48
Steps == {0, Day, Week, Week + Day + Hour}

\* Fingerprints (the strings sigCache.key returns), used as cache and
\* single-flight keys.
Keys == {"k1", "k2"}

None == 0

\* ------------------------------------------------------------- signatures
\* A *dns.RRSIG, by the two fields sign and the cache look at.
newRRSIG(incep, expir) == [Inception |-> incep, Expiration |-> expir]

\* The nil *dns.RRSIG (the zero value of call.val).
NilSig == [Inception |-> -1, Expiration |-> -1]

\* error values: nil, or the error dns.RRSIG.Sign returned.
NilErr == "nil"
SignErr == "sign failed"
Errs == {NilErr, SignErr}

\* What the fn handed to a direct call of Do may return: a signature and no
\* error, or another signature with an error.
TestResults == {<<newRRSIG(1, 2), NilErr>>, <<newRRSIG(3, 4), SignErr>>}

\* ------------------------------------------------------------------ state
VARIABLES
  pc,        \* pc[p]: the statement goroutine p is at
  key,       \* key[p]: the key argument of p's call of Do
  cp,        \* cp[p]: p's local c, a pointer into calls (None: unset)
  ret,       \* ret[p]: what p's call of Do returned: val, err, shared
  gm,        \* inflight.m: the keys in flight, each mapped to its *call
  gmu,       \* inflight's sync.Mutex: the goroutine holding it, or None
  calls,     \* the heap of call objects (wg, val, err, dups), by address
  ncalls,    \* how many times Do was called directly
  \* history, kept for the properties only
  ran,       \* ran[p]: p's call of Do ran fn itself
  fnCount,   \* fnCount[k]: how many times an fn ran for key k
  fnFirst,   \* fnFirst[k]: what the first fn run for key k returned
  late,      \* late[k]: some Do(k) was entered after an fn for k returned
  gone,      \* gone[k]: k was deleted from inflight.m at least once
  lateLookup, \* lateLookup[k]: some Do(k) looked k up after such a delete
  regs,      \* regs[k]: how many calls were registered for k (line 304)
  dels,      \* dels[k]: how many executing callers of Do(k) have deleted k
             \* and returned (lines 311-314)
  since,     \* since[p]: dels[k] when p's call of Do(k) began
  mine,      \* mine[p]: the flight p's call of Do(k) is in, counted as the
             \* calls registered for k are (0: p has not looked k up yet)
  overlap,   \* overlap[p]: when p's call of Do began an fn for another key
             \* was executing, and it has not returned since
  \* the signature cache and Server.sign
  clock,     \* the last reading of time.Now(), in hours
  cache,     \* cache.m: fingerprint -> the *dns.RRSIG stored
  cmu,       \* cache's sync.RWMutex: the goroutines holding it to read, and
             \* the goroutine holding it to write (or None)
  fatal,     \* the Go runtime has aborted the process
  nsigns,    \* how many times sign was called
  now,       \* now[p]: sign's local now
  todo,      \* todo[p]: the RRsets of m.Answer and m.Ns (by fingerprint)
             \* the two loops of sign have yet to visit
  sec,       \* sec[p]: the section whose loop p is in
  appended,  \* appended[p]: the signatures sign has appended to m so far
  \* history, kept for the properties only
  signedOk,  \* signedOk[k]: an fn of sign signed k without error, and k
             \* was not removed from the cache since
  fresh,     \* fresh[p]: the entry p's cache.search returned had at least
             \* 24 hours of validity left at now[p]
  alone,     \* alone[p]: no other sign call has been in progress since p's
             \* sign call began
  \* the denial index and Server.newNSEC
  denial,    \* denial.list: four registries, denial[l] being d.list[l-1]
  registered, \* how many times each service is registered at the moment
  events,    \* how many service events were handled
  found,     \* the last call of denial.search and what it returned
  nsec,      \* the last call of newNSEC and the NSEC it returned
  ops,       \* how many times insert and remove were called directly
  \* history, kept for the properties only
  inserted,  \* inserted[l][x]: direct calls of insert(x, l) so far
  removed,   \* removed[l][x]: direct calls of remove(x, l) so far
  early,     \* early[l][x]: some remove(x, l) was called when x had been
             \* removed as often as inserted
  \* rrSets
  rrs,       \* the records handed to rrSets
  groups,    \* what rrSets returned for them
  \* sigCache.key
  sets,      \* two RRsets handed to cache.key
  prints,    \* the fingerprints cache.key returned for them
  \* the truncation flag of sign
  trunc      \* a message at line 133 of sign: bufsize, m.Len() and
             \* m.Truncated before lines 133-135, and m.Truncated after them

doVars == <<pc, key, cp, ret, gm, gmu, calls, ncalls>>
histVars == <<ran, fnCount, fnFirst, late, gone, lateLookup,
              regs, dels, since, mine, overlap>>
cacheVars == <<clock, cache, cmu, fatal>>
signVars == <<nsigns, now, todo, sec, appended, signedOk, fresh, alone>>
listVars == <<ops, inserted, removed, early>>
denialVars == <<denial, registered, events, found, nsec, listVars>>
rrVars == <<rrs, groups, sets, prints, trunc>>
vars == <<doVars, histVars, cacheVars, signVars, denialVars, rrVars>>

NoRet == [val |-> NilSig, err |-> NilErr, shared |-> FALSE]

\* new(call): the zero value.
NewCall == [wg |-> 0, val |-> NilSig, err |-> NilErr, dups |-> 0]

\* The heap.  A call is reachable from the c of the goroutines inside Do
\* (and from inflight.m, whose call is also the c of the goroutine running
\* fn), so there are no more live calls than goroutines; new(call) takes an address no
\* goroutine refers to, and memory no goroutine refers to is zeroed.
Addrs == Procs
FreeAddr(c) == CHOOSE a \in Addrs : /\ \A p \in Procs : c[p] # a
                                   /\ \A b \in Addrs : b < a => \E p \in Procs : c[p] = b
Collect(heap, c) ==
  [a \in Addrs |-> IF \E p \in Procs : c[p] = a THEN heap[a] ELSE NewCall]

InitDo ==
  /\ pc = [p \in Procs |-> "idle"]
  /\ key = [p \in Procs |-> "k1"]
  /\ cp = [p \in Procs |-> None]
  /\ ret = [p \in Procs |-> NoRet]
  /\ gm = << >>
  /\ gmu = None
  /\ calls = [a \in Addrs |-> NewCall]
  /\ ncalls = 0

InitHist ==
  /\ ran = [p \in Procs |-> FALSE]
  /\ fnCount = [k \in Keys |-> 0]
  /\ fnFirst = [k \in Keys |-> NoRet]
  /\ late = [k \in Keys |-> FALSE]
  /\ gone = [k \in Keys |-> FALSE]
  /\ lateLookup = [k \in Keys |-> FALSE]
  /\ regs = [k \in Keys |-> 0]
  /\ dels = [k \in Keys |-> 0]
  /\ since = [p \in Procs |-> 0]
  /\ mine = [p \in Procs |-> 0]
  /\ overlap = [p \in Procs |-> FALSE]

\* newCache(), and no request being served.
InitSign ==
  /\ clock = Epoch
  /\ cache = << >>
  /\ cmu = [readers |-> {}, writer |-> None]
  /\ fatal = FALSE
  /\ nsigns = 0
  /\ now = [p \in Procs |-> 0]
  /\ todo = [p \in Procs |-> [Answer |-> {}, Ns |-> {}]]
  /\ sec = [p \in Procs |-> "Answer"]
  /\ appended = [p \in Procs |-> {}]
  /\ signedOk = [k \in Keys |-> FALSE]
  /\ fresh = [p \in Procs |-> FALSE]
  /\ alone = [p \in Procs |-> FALSE]

\* ---------------------------------------------------------------- strings
\* A Go string is the sequence of its bytes; strings compare byte by byte.
Dot == <<46>>
La == <<97>>
Lb == <<98>>
Lc == <<99>>
Ld == <<100>>
Le == <<101>>
Lf == <<102>>
Lzero == <<48>>
Empty == << >>

\* s < t and s >= t on strings.
RECURSIVE StrLess(_, _)
StrLess(s, t) ==
  IF t = << >> THEN FALSE
  ELSE IF s = << >> THEN TRUE
  ELSE IF s[1] # t[1] THEN s[1] < t[1]
  ELSE StrLess(Tail(s), Tail(t))

StrGE(s, t) == ~StrLess(s, t)

\* strings.Join(labels, ".").
RECURSIVE Join(_)
Join(labels) ==
  IF Len(labels) = 0 THEN << >>
  ELSE IF Len(labels) = 1 THEN labels[1]
  ELSE labels[1] \o Dot \o Join(Tail(labels))

\* ------------------------------------------------------- the denial index
\* The services of the registry: msg.Service, by the four fields the
\* denial index uses.
Services ==
  [Region : {La}, Version : {La}, Name : {La, Lc}, Environment : {La, Lc, Le}]

\* The name a service has at depth l: lines 364-367.
DerivedName(sv, l) ==
  IF l = 4 THEN Join(<<sv.Region, sv.Version, sv.Name, sv.Environment>>)
  ELSE IF l = 3 THEN Join(<<sv.Version, sv.Name, sv.Environment>>)
  ELSE IF l = 2 THEN Join(<<sv.Name, sv.Environment>>)
  ELSE sv.Environment

Depths == 1..4

\* denialref{name, reference}.
Ref(x, n) == [name |-> x, reference |-> n]

\* list[i] for a Go index i (from 0).
At(list, i) == list[i + 1]

\* sort.Search(len(list), func(i) { return list[i].name >= x }): the binary
\* search of package sort on [i, j).
RECURSIVE SortSearch(_, _, _, _)
SortSearch(list, x, i, j) ==
  IF i < j
    THEN LET h == (i + j) \div 2
         IN IF ~StrGE(At(list, h).name, x)
              THEN SortSearch(list, x, h + 1, j)
              ELSE SortSearch(list, x, i, h)
    ELSE i

\* DenialInsert with the new entry left at the end of the slice, where
\* append put it (the copy of line 353 and the index i of lines 355-356
\* left out).
DenialInsert_AtEnd(list, x) ==
  LET i == SortSearch(list, x, 0, Len(list))
  IN IF i < Len(list) /\ At(list, i).name = x
       THEN [list EXCEPT ![i + 1].reference = @ + 1]
       ELSE list \o <<Ref(x, 1)>>

\* denialList.insert(x, l) on list = d.list[l-1]: lines 347-358.
DenialInsert(list, x) ==
  LET i == SortSearch(list, x, 0, Len(list))
  IN IF i < Len(list) /\ At(list, i).name = x
       THEN [list EXCEPT ![i + 1].reference = @ + 1]
       ELSE SubSeq(list, 1, i) \o <<Ref(x, 1)>> \o SubSeq(list, i + 1, Len(list))

\* DenialRemove with the deletion of lines 378-382 left out: the entry
\* stays, with reference 0.
DenialRemove_NoDelete(list, x) ==
  LET i == SortSearch(list, x, 0, Len(list))
  IN IF i < Len(list) /\ At(list, i).name = x
       THEN [list EXCEPT ![i + 1].reference = @ - 1]
       ELSE list

\* denialList.remove(x, l) on list = d.list[l-1]: lines 375-383.
DenialRemove(list, x) ==
  LET i == SortSearch(list, x, 0, Len(list))
  IN IF i < Len(list) /\ At(list, i).name = x
       THEN IF At(list, i).reference - 1 = 0
              THEN SubSeq(list, 1, i) \o SubSeq(list, i + 2, Len(list))
              ELSE [list EXCEPT ![i + 1].reference = @ - 1]
       ELSE list

\* What denialList.search returns, or the runtime panic it ends in.
Found(prev, next) == [panic |-> FALSE, prev |-> prev, next |-> next]
Panic == [panic |-> TRUE, prev |-> Empty, next |-> Empty]

\* denialList.search(x, l): lines 401-406.  An index outside the array
\* d.list or outside the slice d.list[l-1] is a runtime panic.
DenialSearch(d, x, l) ==
  IF l \notin Depths THEN Panic
  ELSE LET list == d[l]
           i == SortSearch(list, x, 0, Len(list))
       IN IF i = 1
            THEN IF i < Len(list) THEN Found(Empty, At(list, i).name) ELSE Panic
            ELSE IF i - 1 >= 0 /\ i < Len(list)
                   THEN Found(At(list, i - 1).name, At(list, i).name)
                   ELSE Panic

\* The server's zone: s.domain and s.domainLabels.
Domain == Dot \o <<120>>
DomainLabels == <<<<120>>>>

\* The query names handed to newNSEC, as dns.SplitDomainName splits them:
\* up to MaxQLabels labels below the zone apex, then the labels of the
\* apex.  The two labels nearest the apex are any of QLabels, those further
\* out are "a".
QLabels == {Lzero, La, Lb, Lc, Ld, Lf}
Below ==
  UNION {{q \in [1..n -> QLabels] : \A i \in 1..(n - 2) : q[i] = La} : n \in 0..MaxQLabels}
QNames == {q \o DomainLabels : q \in Below}

\* The names handed to denial.search directly, per depth.
SearchNames(l) == {Join(q) : q \in {b \in Below : Len(b) = l}}

\* Server.newNSEC(qname): lines 161-182.  key is qlabels[ls4:ls].
NsecKey(qlabels) ==
  LET ls == Len(qlabels) - Len(DomainLabels)
      ls4 == IF ls - 4 < 0 THEN 0 ELSE ls - 4
  IN SubSeq(qlabels, ls4 + 1, ls)

ApexTypes == {"SOA", "NS", "RRSIG", "DNSKEY", "NSEC"}
LeafTypes == {"A", "AAAA", "SRV", "NSEC"}

newNSEC(d, qlabels) ==
  LET k == NsecKey(qlabels)
      r == DenialSearch(d, Join(k), Len(k))
  IN IF r.panic
       THEN [panic |-> TRUE, Name |-> Empty, NextDomain |-> Empty, TypeBitMap |-> {}]
       ELSE [panic |-> FALSE,
             Name |-> r.prev \o Domain \o Dot,
             NextDomain |-> r.next \o Domain \o Dot,
             TypeBitMap |-> IF r.prev = Empty THEN ApexTypes ELSE LeafTypes]

NoCall == [called |-> FALSE]

\* The names handed to insert and remove directly.
ListNames == {La, Lb, Lc}

\* newDenialList(), and no service registered.
InitDenial ==
  /\ denial = [l \in Depths |-> << >>]
  /\ registered = [sv \in Services |-> 0]
  /\ events = 0
  /\ found = NoCall
  /\ nsec = NoCall
  /\ ops = 0
  /\ inserted = [l \in Depths |-> [x \in ListNames |-> 0]]
  /\ removed = [l \in Depths |-> [x \in ListNames |-> 0]]
  /\ early = [l \in Depths |-> [x \in ListNames |-> FALSE]]

\* addServiceNSEC(sv): lines 364-367.
AddService(sv) ==
  /\ events < MaxEvents
  /\ events' = events + 1
  /\ denial' = [l \in Depths |-> DenialInsert(denial[l], DerivedName(sv, l))]
  /\ registered' = [registered EXCEPT ![sv] = @ + 1]
  /\ found' = NoCall
  /\ nsec' = NoCall
  /\ UNCHANGED <<listVars, doVars, histVars, cacheVars, signVars, rrVars>>

\* removeServiceNSEC(sv), for a service that is registered: lines 389-392,
\* which call denial.insert.
RemoveService(sv) ==
  /\ events < MaxEvents
  /\ registered[sv] > 0
  /\ events' = events + 1
  /\ denial' = [l \in Depths |-> DenialInsert(denial[l], DerivedName(sv, l))]
  /\ registered' = [registered EXCEPT ![sv] = @ - 1]
  /\ found' = NoCall
  /\ nsec' = NoCall
  /\ UNCHANGED <<listVars, doVars, histVars, cacheVars, signVars, rrVars>>

\* A call of denial.search(x, l); one call is looked at at a time.
Search(x, l) ==
  /\ found = NoCall /\ nsec = NoCall
  /\ found' = [called |-> TRUE, x |-> x, l |-> l, res |-> DenialSearch(denial, x, l)]
  /\ nsec' = NoCall
  /\ UNCHANGED <<denial, registered, events, listVars>>
  /\ UNCHANGED <<doVars, histVars, cacheVars, signVars, rrVars>>

\* A call of newNSEC(qname); one call is looked at at a time.
NewNSEC(q) ==
  /\ found = NoCall /\ nsec = NoCall
  /\ nsec' = [called |-> TRUE, qlabels |-> q, rr |-> newNSEC(denial, q)]
  /\ found' = NoCall
  /\ UNCHANGED <<denial, registered, events, listVars>>
  /\ UNCHANGED <<doVars, histVars, cacheVars, signVars, rrVars>>

\* A direct call of denial.insert(x, l), under d.m's lock from its first
\* statement to its last.
Insert(x, l) ==
  /\ ops < MaxOps
  /\ ops' = ops + 1
  /\ denial' = [denial EXCEPT ![l] = DenialInsert(@, x)]
  /\ inserted' = [inserted EXCEPT ![l][x] = @ + 1]
  /\ UNCHANGED <<registered, events, found, nsec, removed, early>>
  /\ UNCHANGED <<doVars, histVars, cacheVars, signVars, rrVars>>

\* A direct call of denial.remove(x, l), under d.m's lock likewise.
Remove(x, l) ==
  /\ ops < MaxOps
  /\ ops' = ops + 1
  /\ denial' = [denial EXCEPT ![l] = DenialRemove(@, x)]
  /\ removed' = [removed EXCEPT ![l][x] = @ + 1]
  /\ early' = [early EXCEPT ![l][x] = @ \/ removed[l][x] >= inserted[l][x]]
  /\ UNCHANGED <<registered, events, found, nsec, inserted>>
  /\ UNCHANGED <<doVars, histVars, cacheVars, signVars, rrVars>>

NextList ==
  \/ \E l \in Depths : \E x \in ListNames : Insert(x, l)
  \/ \E l \in Depths : \E x \in ListNames : Remove(x, l)

NextNSEC ==
  \/ \E sv \in Services : AddService(sv)
  \/ \E sv \in Services : RemoveService(sv)
  \/ \E l \in Depths : \E x \in SearchNames(l) : Search(x, l)
  \/ \E q \in QNames : NewNSEC(q)

\* ------------------------------------------------------------------ rrSets
\* The records handed to rrSets: a dns.RR by its header's Name, Class and
\* Rrtype, and its rdata.
RRs == [Name : {La, Lb}, Class : {"IN"}, Rrtype : {"A", "SRV"}, Rdata : {1, 2}]
RRLists == UNION {[1..n -> RRs] : n \in 0..MaxRRs}

\* rrset{qname, qclass, qtype} of a record: lines 194 and 199.
RRsetOf(r) == [qname |-> r.Name, qclass |-> r.Class, qtype |-> r.Rrtype]

\* A slice []dns.RR: its length and its backing array.  cells holds the
\* cells of the array that were written.
Slice(n, cells) == [len |-> n, cells |-> cells]

\* The records a slice holds: the first len cells of its array.
Elems(sl) == SubSeq(sl.cells, 1, sl.len)

\* One turn of the loop of lines 193-201 for record r, m being the map.  For
\* a key the map has, s is a copy of the map's slice; append(s, r) writes r
\* to cell len(s) of the array the two share (its capacity is 3, and len(s)
\* is 1) and the longer slice goes to s alone: the slice in the map keeps
\* its length.  For a new key the map gets a slice of length 1 and
\* capacity 3.
RrSetsStep(m, r) ==
  LET k == RRsetOf(r)
  IN IF k \in DOMAIN m
       THEN [m EXCEPT ![k] =
               Slice(m[k].len, SubSeq(m[k].cells, 1, m[k].len) \o <<r>>)]
       ELSE [j \in DOMAIN m \cup {k} |-> IF j = k THEN Slice(1, <<r>>) ELSE m[j]]

RECURSIVE RrSetsLoop(_, _)
RrSetsLoop(m, list) ==
  IF list = << >> THEN m
  ELSE RrSetsLoop(RrSetsStep(m, Head(list)), Tail(list))

\* rrSets(list): lines 192-205; nil for a map without keys.
rrSets(list) ==
  LET m == RrSetsLoop(<< >>, list)
  IN IF DOMAIN m # {} THEN [nil |-> FALSE, m |-> m] ELSE [nil |-> TRUE, m |-> << >>]

\* ------------------------------------------------------------ sigCache.key
\* packUint16 and packUint32, line 275 and line 276: big-endian bytes.
packUint16(i) == <<(i \div 256) % 256, i % 256>>
packUint32(i) ==
  <<(i \div 16777216) % 256, (i \div 65536) % 256, (i \div 256) % 256, i % 256>>

\* dns.TypeA, dns.TypeSOA, dns.TypeAAAA and dns.TypeSRV.
TypeCode(t) ==
  CASE t = "A" -> 1
    [] t = "SOA" -> 6
    [] t = "AAAA" -> 28
    [] t = "SRV" -> 33

\* The records handed to cache.key, by their header's Name, Rrtype and Ttl
\* and the rdata of their type: a dns.SOA, a dns.SRV, a dns.A (4 address
\* bytes) or a dns.AAAA (16 address bytes).
Ttls == {60, 3600}
SOAs == [Name : {La}, Rrtype : {"SOA"}, Ttl : Ttls, Serial : {1, 65536}]
SRVs == [Name : {La}, Rrtype : {"SRV"}, Ttl : Ttls, Priority : {10, 20},
         Weight : {1, 256}, Port : {80, 8080}, Target : {Lb, Lc}]
As == [Name : {La}, Rrtype : {"A"}, Ttl : Ttls,
       A : {<<10, 0, 0, 1>>, <<10, 0, 0, 2>>}]
AAAAs == [Name : {La}, Rrtype : {"AAAA"}, Ttl : Ttls,
          AAAA : {<<32, 1, 13, 184, 0, 0, 0, 0, 0, 0, 0, 0, 0, 0, 0, 1>>,
                  <<32, 1, 13, 184, 0, 0, 0, 0, 0, 0, 0, 0, 0, 0, 0, 2>>}]

\* The RRsets handed to cache.key: one to MaxKeyRRs records of one type
\* with one owner name (rrSets returns no empty group).
SetsOf(recs) == UNION {[1..n -> recs] : n \in 1..MaxKeyRRs}
KeySets == SetsOf(SOAs) \cup SetsOf(SRVs) \cup SetsOf(As) \cup SetsOf(AAAAs)

\* What one turn of the loop of lines 250-271 appends to i for record r.
KeyBytes(r) ==
  CASE r.Rrtype = "SOA" -> packUint32(r.Serial)
    [] r.Rrtype = "SRV" ->
         packUint16(r.Priority) \o packUint16(r.Weight) \o packUint16(r.Weight)
           \o r.Target
    [] r.Rrtype = "A" -> r.A
    [] r.Rrtype = "AAAA" -> r.AAAA

RECURSIVE KeyLoop(_, _)
KeyLoop(i, list) ==
  IF list = << >> THEN i
  ELSE KeyLoop(i \o KeyBytes(Head(list)), Tail(list))

\* h.Sum(nil) of a sha1 hash nothing was written to: the SHA-1 digest of
\* the empty input.
Sha1OfNothing ==
  <<218, 57, 163, 238, 94, 107, 75, 13, 50, 85,
    191, 239, 149, 96, 24, 144, 175, 216, 7, 9>>

\* sigCache.key(list): lines 247-272.  Nothing is written to h, and
\* h.Sum(i) appends the digest of what was written to i: the fingerprint is
\* the bytes of i followed by the digest of the empty input.
sigCacheKey(list) ==
  KeyLoop(list[1].Name \o packUint16(TypeCode(list[1].Rrtype)), list)
    \o Sha1OfNothing

InitRR ==
  /\ rrs = << >>
  /\ groups = NoCall
  /\ sets = << >>
  /\ prints = NoCall
  /\ trunc = NoCall

\* The records of a call of rrSets.
InitRRInput ==
  /\ rrs \in RRLists
  /\ groups = NoCall
  /\ sets = << >>
  /\ prints = NoCall
  /\ trunc = NoCall

\* The call of rrSets.
CallRrSets ==
  /\ groups = NoCall
  /\ groups' = [called |-> TRUE, res |-> rrSets(rrs)]
  /\ UNCHANGED <<rrs, sets, prints, trunc>>
  /\ UNCHANGED <<doVars, histVars, cacheVars, signVars, denialVars>>

NextRR == CallRrSets

\* Two RRsets with the same owner name and type, before their fingerprints
\* are taken.
InitKeyInput ==
  /\ rrs = << >>
  /\ groups = NoCall
  /\ sets \in {ab \in KeySets \X KeySets :
                 /\ ab[1][1].Name = ab[2][1].Name
                 /\ ab[1][1].Rrtype = ab[2][1].Rrtype}
  /\ prints = NoCall
  /\ trunc = NoCall

\* cache.key is called for the one and for the other.
CallKey ==
  /\ prints = NoCall
  /\ prints' = [called |-> TRUE, a |-> sigCacheKey(sets[1]), b |-> sigCacheKey(sets[2])]
  /\ UNCHANGED <<rrs, groups, sets, trunc>>
  /\ UNCHANGED <<doVars, histVars, cacheVars, signVars, denialVars>>

NextKey == CallKey

\* ------------------------------------------- the truncation flag of sign
\* The client's buffer sizes (bufsize is a uint16) and the lengths m.Len()
\* gives for the assembled message.
Bufsizes == {0, 1, 511, 512, 513, 1232, 4095, 4096, 4097, 65535}
MsgLens == {12, 511, 512, 513, 4096, 4097, 5000}

\* Lines 133-135: m.Truncated after them, tc being m.Truncated before, len
\* m.Len() and bufsize the client's buffer size.
Truncated(tc, len, bufsize) ==
  IF bufsize >= 512 \/ bufsize <= 4096 THEN len > bufsize ELSE tc

\* A message that has come to line 133 of sign.
InitTruncInput ==
  /\ rrs = << >>
  /\ groups = NoCall
  /\ sets = << >>
  /\ prints = NoCall
  /\ trunc \in [called : {FALSE}, bufsize : Bufsizes, len : MsgLens, before : BOOLEAN,
                Truncated : BOOLEAN]
  /\ trunc.Truncated = trunc.before

\* Lines 133-135 for it.
SetTruncated ==
  /\ ~trunc.called
  /\ trunc' = [trunc EXCEPT !.called = TRUE,
                            !.Truncated = Truncated(trunc.before, trunc.len, trunc.bufsize)]
  /\ UNCHANGED <<rrs, groups, sets, prints>>
  /\ UNCHANGED <<doVars, histVars, cacheVars, signVars, denialVars>>

NextTrunc == SetTruncated

Init == InitDo /\ InitHist /\ InitSign /\ InitDenial /\ InitRR

\* ------------------------------------------------------------- single.Do
\* A goroutine calls inflight.Do(k, fn): it is now at line 292, before
\* g.Lock().
DoEnter(p, k) ==
  /\ pc' = [pc EXCEPT ![p] = "lock1"]
  /\ key' = [key EXCEPT ![p] = k]
  /\ cp' = [cp EXCEPT ![p] = None]
  /\ ret' = [ret EXCEPT ![p] = NoRet]
  /\ UNCHANGED <<gm, gmu, calls>>

\* A direct call of Do, as a test of the coordinator makes it.  Idle
\* goroutines are alike and so are keys no call was made with: the call is
\* made by the first idle goroutine, and the first call with key k1.
CallDo(p, k) ==
  /\ pc[p] = "idle"
  /\ \A q \in Procs : q < p => pc[q] # "idle"
  /\ ncalls = 0 => k = "k1"
  /\ ncalls < MaxCalls
  /\ ncalls' = ncalls + 1
  /\ DoEnter(p, k)
  /\ ran' = [ran EXCEPT ![p] = FALSE]
  /\ late' = [late EXCEPT ![k] = @ \/ fnCount[k] > 0]
  /\ since' = [since EXCEPT ![p] = dels[k]]
  /\ mine' = [mine EXCEPT ![p] = 0]
  /\ overlap' = [overlap EXCEPT ![p] = \E q \in Procs : pc[q] = "fn" /\ key[q] # k]
  /\ UNCHANGED <<fnCount, fnFirst, gone, lateLookup, regs, dels, cacheVars, signVars>>
  /\ UNCHANGED <<denialVars, rrVars>>

\* g.Lock() at line 292 and at line 310.
DoLock(p) ==
  /\ ~fatal
  /\ pc[p] \in {"lock1", "lock2"}
  /\ gmu = None
  /\ gmu' = p
  /\ pc' = [pc EXCEPT ![p] = IF pc[p] = "lock1" THEN "check" ELSE "delete"]
  /\ UNCHANGED <<key, cp, ret, gm, calls, ncalls, histVars, cacheVars, signVars>>
  /\ UNCHANGED <<denialVars, rrVars>>

\* DoCheck with g.Unlock() (lines 298 and 305) left out: the mutex stays
\* held while the caller waits or runs fn.
DoCheck_KeepLock(p) ==
  /\ ~fatal
  /\ pc[p] = "check"
  /\ gmu = p
  /\ IF key[p] \in DOMAIN gm
       THEN /\ cp' = [cp EXCEPT ![p] = gm[key[p]]]
            /\ calls' = [calls EXCEPT ![gm[key[p]]].dups = @ + 1]
            /\ pc' = [pc EXCEPT ![p] = "wait"]
            /\ gm' = gm
       ELSE /\ cp' = [cp EXCEPT ![p] = FreeAddr(cp)]
            /\ calls' = [calls EXCEPT ![FreeAddr(cp)] = [NewCall EXCEPT !.wg = 1]]
            /\ gm' = [k \in DOMAIN gm \cup {key[p]} |->
                        IF k = key[p] THEN FreeAddr(cp) ELSE gm[k]]
            /\ pc' = [pc EXCEPT ![p] = "fn"]
  /\ gmu' = gmu
  /\ UNCHANGED <<key, ret, ncalls, cacheVars, signVars>>
  /\ UNCHANGED <<denialVars, rrVars>>

\* Lines 293-305 under the mutex: a key in flight is joined (dups++), a key
\* not in flight gets a new call with wg.Add(1).  (The nil map of line 293
\* is the empty map.)
DoCheck(p) ==
  /\ ~fatal
  /\ pc[p] = "check"
  /\ gmu = p
  /\ IF key[p] \in DOMAIN gm
       THEN /\ cp' = [cp EXCEPT ![p] = gm[key[p]]]
            /\ calls' = [calls EXCEPT ![gm[key[p]]].dups = @ + 1]
            /\ pc' = [pc EXCEPT ![p] = "wait"]
            /\ gm' = gm
       ELSE /\ cp' = [cp EXCEPT ![p] = FreeAddr(cp)]
            /\ calls' = [calls EXCEPT ![FreeAddr(cp)] = [NewCall EXCEPT !.wg = 1]]
            /\ gm' = [k \in DOMAIN gm \cup {key[p]} |->
                        IF k = key[p] THEN FreeAddr(cp) ELSE gm[k]]
            /\ pc' = [pc EXCEPT ![p] = "fn"]
  /\ gmu' = None
  /\ UNCHANGED <<key, ret, ncalls, cacheVars, signVars>>
  /\ UNCHANGED <<denialVars, rrVars>>

\* DoCheck in a run of direct calls, with its history.
TestCheck(p) ==
  /\ DoCheck(p)
  /\ lateLookup' = [lateLookup EXCEPT ![key[p]] = @ \/ gone[key[p]]]
  /\ regs' = [regs EXCEPT ![key[p]] = IF key[p] \in DOMAIN gm THEN @ ELSE @ + 1]
  /\ mine' = [mine EXCEPT ![p] = regs'[key[p]]]
  /\ UNCHANGED <<ran, fnCount, fnFirst, late, gone, dels, since, overlap>>

\* DoWait with c.wg.Wait() left out: the waiter returns at once.
DoWait_NoWait(p) ==
  /\ pc[p] = "wait"
  /\ ret' = [ret EXCEPT ![p] =
               [val |-> calls[cp[p]].val, err |-> calls[cp[p]].err, shared |-> TRUE]]
  /\ pc' = [pc EXCEPT ![p] = "ret"]
  /\ UNCHANGED <<key, cp, gm, gmu, calls, ncalls, histVars, cacheVars, signVars>>
  /\ UNCHANGED <<denialVars, rrVars>>

\* c.wg.Wait() and the return of line 300: a waiter goes on once the
\* call's WaitGroup is at zero, with the call's val and err and shared =
\* true.
DoWait(p) ==
  /\ ~fatal
  /\ pc[p] = "wait"
  /\ calls[cp[p]].wg = 0
  /\ ret' = [ret EXCEPT ![p] =
               [val |-> calls[cp[p]].val, err |-> calls[cp[p]].err, shared |-> TRUE]]
  /\ pc' = [pc EXCEPT ![p] = "ret"]
  /\ UNCHANGED <<key, cp, gm, gmu, calls, ncalls, histVars, cacheVars, signVars>>
  /\ UNCHANGED <<denialVars, rrVars>>

\* Line 307: c.val, c.err = fn(), fn returning (v, e).
RunFn(p, v, e) ==
  /\ ~fatal
  /\ pc[p] = "fn"
  /\ calls' = [calls EXCEPT ![cp[p]].val = v, ![cp[p]].err = e]
  /\ pc' = [pc EXCEPT ![p] = "done"]
  /\ UNCHANGED <<key, cp, ret, gm, gmu, ncalls>>

\* The fn of a direct call.
TestFn(p) ==
  /\ \E r \in TestResults :
       /\ RunFn(p, r[1], r[2])
       /\ fnFirst' = [fnFirst EXCEPT ![key[p]] =
                        IF fnCount[key[p]] = 0
                          THEN [val |-> r[1], err |-> r[2], shared |-> FALSE] ELSE @]
  /\ ran' = [ran EXCEPT ![p] = TRUE]
  /\ fnCount' = [fnCount EXCEPT ![key[p]] = @ + 1]
  /\ overlap' = [q \in Procs |-> overlap[q] /\ key[q] = key[p]]
  /\ UNCHANGED <<late, gone, lateLookup, regs, dels, since, mine, cacheVars, signVars>>
  /\ UNCHANGED <<denialVars, rrVars>>

\* Line 308: c.wg.Done().
DoDone(p) ==
  /\ ~fatal
  /\ pc[p] = "done"
  /\ calls' = [calls EXCEPT ![cp[p]].wg = @ - 1]
  /\ pc' = [pc EXCEPT ![p] = "lock2"]
  /\ UNCHANGED <<key, cp, ret, gm, gmu, ncalls, histVars, cacheVars, signVars>>
  /\ UNCHANGED <<denialVars, rrVars>>

\* DoDelete with delete(g.m, key) of line 311 left out.
DoDelete_NoDelete(p) ==
  /\ ~fatal
  /\ pc[p] = "delete"
  /\ gmu = p
  /\ gm' = gm
  /\ gmu' = None
  /\ ret' = [ret EXCEPT ![p] =
               [val |-> calls[cp[p]].val, err |-> calls[cp[p]].err,
                shared |-> calls[cp[p]].dups > 0]]
  /\ pc' = [pc EXCEPT ![p] = "ret"]
  /\ UNCHANGED <<key, cp, calls, ncalls, cacheVars, signVars>>
  /\ UNCHANGED <<denialVars, rrVars>>

\* Lines 311-314 under the mutex: delete(g.m, key), then the return of
\* c.val, c.err, c.dups > 0.  (No goroutine can reach c.dups++ for this
\* call once the key is deleted, so reading dups here is reading it at
\* line 314.)
DoDelete(p) ==
  /\ ~fatal
  /\ pc[p] = "delete"
  /\ gmu = p
  /\ gm' = [k \in DOMAIN gm \ {key[p]} |-> gm[k]]
  /\ gmu' = None
  /\ ret' = [ret EXCEPT ![p] =
               [val |-> calls[cp[p]].val, err |-> calls[cp[p]].err,
                shared |-> calls[cp[p]].dups > 0]]
  /\ pc' = [pc EXCEPT ![p] = "ret"]
  /\ UNCHANGED <<key, cp, calls, ncalls, cacheVars, signVars>>
  /\ UNCHANGED <<denialVars, rrVars>>

\* DoDelete in a run of direct calls, with its history.
TestDelete(p) ==
  /\ DoDelete(p)
  /\ gone' = [gone EXCEPT ![key[p]] = TRUE]
  /\ dels' = [dels EXCEPT ![key[p]] = @ + 1]
  /\ UNCHANGED <<ran, fnCount, fnFirst, late, lateLookup, regs, since, mine, overlap>>

\* The direct caller takes Do's results and is free to call again (the
\* history of its call is dropped with them).
DoReturn(p) ==
  /\ pc[p] = "ret"
  /\ pc' = [pc EXCEPT ![p] = "idle"]
  /\ key' = [key EXCEPT ![p] = "k1"]
  /\ cp' = [cp EXCEPT ![p] = None]
  /\ calls' = Collect(calls, cp')
  /\ ret' = [ret EXCEPT ![p] = NoRet]
  /\ ran' = [ran EXCEPT ![p] = FALSE]
  /\ since' = [since EXCEPT ![p] = 0]
  /\ mine' = [mine EXCEPT ![p] = 0]
  /\ overlap' = [overlap EXCEPT ![p] = FALSE]
  /\ UNCHANGED <<fnCount, fnFirst, late, gone, lateLookup, regs, dels>>
  /\ UNCHANGED <<gm, gmu, ncalls, cacheVars, signVars>>
  /\ UNCHANGED <<denialVars, rrVars>>

NextDo ==
  \/ \E p \in Procs, k \in Keys : CallDo(p, k)
  \/ \E p \in Procs : DoLock(p)
  \/ \E p \in Procs : TestCheck(p)
  \/ \E p \in Procs : DoWait(p)
  \/ \E p \in Procs : TestFn(p)
  \/ \E p \in Procs : DoDone(p)
  \/ \E p \in Procs : TestDelete(p)
  \/ \E p \in Procs : DoReturn(p)

SpecDo == Init /\ [][NextDo]_vars

\* ------------------------------------------------ properties of single.Do
\* The callers of Do(k) that have returned all hold what the one fn run for
\* k produced.
OneFlight(k) ==
  /\ fnCount[k] <= 1
  /\ \A p \in Procs :
       (pc[p] = "ret" /\ key[p] = k) =>
         /\ fnCount[k] = 1
         /\ ret[p].val = fnFirst[k].val
         /\ ret[p].err = fnFirst[k].err

\* C1, as stated: when every caller of Do with a key entered Do before the
\* executing caller's fn returned, fn is invoked exactly once and every
\* caller returns the value and error of that invocation.
C1_EnteredBeforeFnReturned ==
  \A k \in Keys : ~late[k] => OneFlight(k)

\* C1, amended: when every caller of Do with a key has taken g's lock and
\* looked the key up in the in-flight map (line 296) before the executing
\* caller deleted the key from it (line 311), fn is invoked exactly once and
\* every caller returns the value and error of that invocation.
C1_LookedUpBeforeDeleted ==
  \A k \in Keys : ~lateLookup[k] => OneFlight(k)

\* Every goroutine has called Do with one key, all looked the key up before
\* it was deleted, and all have returned the result of the one fn run.
C1_Witness ==
  \E k \in Keys :
    /\ ~lateLookup[k]
    /\ fnCount[k] = 1
    /\ \A p \in Procs : pc[p] = "ret" /\ key[p] = k /\ ret[p].val = fnFirst[k].val
    /\ \E p \in Procs : ~ran[p]

\* C2, as stated: of the callers that have returned from Do, the one that
\* ran fn has shared = false and every other one has shared = true.
C2_SharedOnlyForWaiters ==
  \A p \in Procs : pc[p] = "ret" => (ret[p].shared <=> ~ran[p])

C18_FnOutsideLock ==
  /\ \A p \in Procs : pc[p] \in {"fn", "done", "wait"} => gmu # p
  /\ gmu # None => pc[gmu] \in {"check", "delete"}
  /\ \A p \in Procs :
       (pc[p] = "wait" /\ calls[cp[p]].wg # 0) =>
         \E q \in Procs :
           pc[q] \in {"fn", "done"} /\ cp[q] = cp[p] /\ key[q] = key[p]

\* A call of Do began while an fn for another key was executing, ran its
\* own fn and has returned, and that other fn is executing still.
C18_Witness ==
  \E p, q \in Procs :
    /\ pc[q] = "fn" /\ key[q] # key[p]
    /\ pc[p] = "ret" /\ ran[p] /\ overlap[p]

\* ------------------------------------------------- the cache, Server.sign
\* dns.RRSIG.ValidityPeriod(t) of the dns library sign is built on: t is
\* within the signature's validity period, Inception <= t <= Expiration.
\* (The library compares in RFC 1982 serial arithmetic, which is plain
\* comparison for times this close together.)
ValidityPeriod(sig, t) == sig.Inception <= t /\ t <= sig.Expiration

\* Lines 76-77: incep and expir of a sign call whose now is t.
incep(t) == t - TwoHours
expir(t) == t + Week

\* The messages handed to sign: the RRsets of the answer section and of the
\* authority section, by fingerprint.
Msgs == {[Answer |-> {"k1"}, Ns |-> {}],
         [Answer |-> {"k1", "k2"}, Ns |-> {}],
         [Answer |-> {"k1"}, Ns |-> {"k2"}]}

\* A signature appended to section sc of the message; cached tells whether
\* it is the copy cache.search returned.
Appended(sc, k, sig, cached) == [sec |-> sc, key |-> k, sig |-> sig, cached |-> cached]

\* A request is handed to sign; line 75 reads the clock, d hours after it
\* was last read (the first reading is Epoch).  Idle goroutines are alike:
\* the request goes to the first of them.
SignStart(p, m, d) ==
  /\ ~fatal
  /\ pc[p] = "idle"
  /\ \A q \in SignProcs : q < p => pc[q] # "idle"
  /\ nsigns < MaxSigns
  /\ nsigns = 0 => d = 0
  /\ nsigns' = nsigns + 1
  /\ clock' = clock + d
  /\ now' = [now EXCEPT ![p] = clock + d]
  /\ todo' = [todo EXCEPT ![p] = m]
  /\ sec' = [sec EXCEPT ![p] = "Answer"]
  /\ appended' = [appended EXCEPT ![p] = {}]
  /\ fresh' = [fresh EXCEPT ![p] = FALSE]
  /\ alone' = [q \in Procs |-> q = p /\ \A r \in Procs \ {p} : pc[r] = "idle"]
  /\ pc' = [pc EXCEPT ![p] = "loop"]
  /\ UNCHANGED <<key, cp, ret, gm, gmu, calls, ncalls, histVars, cache, cmu, fatal,
                 signedOk>>
  /\ UNCHANGED <<denialVars, rrVars>>

\* The loop heads of lines 80 and 106: the next RRset of the section, in
\* the order the map hands them out (any), and key := cache.key(r); after
\* the last RRset of m.Answer the loop over m.Ns, after the last of m.Ns
\* line 133.
SignNext(p) ==
  /\ ~fatal
  /\ pc[p] = "loop"
  /\ fresh' = [fresh EXCEPT ![p] = FALSE]
  /\ IF todo[p][sec[p]] # {}
       THEN /\ \E k \in todo[p][sec[p]] :
                 /\ key' = [key EXCEPT ![p] = k]
                 /\ todo' = [todo EXCEPT ![p][sec[p]] = @ \ {k}]
            /\ pc' = [pc EXCEPT ![p] = "search"]
            /\ sec' = sec
       ELSE /\ sec' = [sec EXCEPT ![p] = "Ns"]
            /\ pc' = [pc EXCEPT ![p] = IF sec[p] = "Answer" THEN "loop" ELSE "finish"]
            /\ UNCHANGED <<key, todo>>
  /\ UNCHANGED <<cp, ret, gm, gmu, calls, ncalls, histVars, cacheVars,
                 nsigns, now, appended, signedOk, alone>>
  /\ UNCHANGED <<denialVars, rrVars>>

\* cache.search, line 232: c.RLock().
CacheRLock(p) ==
  /\ ~fatal
  /\ pc[p] = "search"
  /\ cmu.writer = None
  /\ cmu' = [cmu EXCEPT !.readers = @ \cup {p}]
  /\ pc' = [pc EXCEPT ![p] = "searching"]
  /\ UNCHANGED <<key, cp, ret, gm, gmu, calls, ncalls, histVars,
                 clock, cache, fatal, signVars>>
  /\ UNCHANGED <<denialVars, rrVars>>

\* The rest of cache.search (lines 234-241, with the deferred RUnlock) and
\* what sign does with its result, lines 82-87: a signature found and valid
\* 24 hours before now is appended and the loop goes on; one found and not
\* valid then is to be removed; with none found Do is called (line 89).
SignSearch(p) ==
  /\ ~fatal
  /\ pc[p] = "searching"
  /\ cmu' = [cmu EXCEPT !.readers = @ \ {p}]
  /\ IF key[p] \in DOMAIN cache
       THEN /\ fresh' = [fresh EXCEPT ![p] =
                           /\ cache[key[p]].Inception <= now[p]
                           /\ cache[key[p]].Expiration >= now[p] + Day]
            /\ IF ValidityPeriod(cache[key[p]], now[p] - Day)
                 THEN /\ appended' = [appended EXCEPT ![p] =
                             @ \cup {Appended(sec[p], key[p], cache[key[p]], TRUE)}]
                      /\ pc' = [pc EXCEPT ![p] = "loop"]
                 ELSE /\ pc' = [pc EXCEPT ![p] = "remove"]
                      /\ appended' = appended
            /\ UNCHANGED <<key, cp, ret>>
       ELSE /\ DoEnter(p, key[p])
            /\ UNCHANGED <<fresh, appended>>
  /\ UNCHANGED <<gm, gmu, calls, ncalls, histVars,
                 clock, cache, fatal, nsigns, now, todo, sec, signedOk, alone>>
  /\ UNCHANGED <<denialVars, rrVars>>

\* cache.remove (lines 219-221) as called at line 87, and the call of Do
\* that follows it.  remove takes no lock: run while another goroutine is
\* inside search or insert, or is at its own delete of line 220, it races
\* with that goroutine's access of the map, and the runtime may detect the
\* concurrent access and abort the process, or not detect it.
CacheRemove(p) ==
  /\ ~fatal
  /\ pc[p] = "remove"
  /\ \/ /\ cache' = [k \in DOMAIN cache \ {key[p]} |-> cache[k]]
        /\ signedOk' = [signedOk EXCEPT ![key[p]] = FALSE]
        /\ DoEnter(p, key[p])
        /\ UNCHANGED <<ncalls, fatal>>
     \/ /\ \/ cmu.readers # {}
           \/ cmu.writer # None
           \/ \E q \in Procs \ {p} : pc[q] = "remove"
        /\ fatal' = TRUE
        /\ UNCHANGED <<doVars, cache, signedOk>>
  /\ UNCHANGED <<histVars, clock, cmu, nsigns, now, todo, sec, appended,
                 fresh, alone>>
  /\ UNCHANGED <<denialVars, rrVars>>

\* The fn of lines 89-96: a signature from newRRSIG(incep, expir), and the
\* error of Sign, if any.
SignFn(p) ==
  /\ \E e \in Errs :
       /\ RunFn(p, newRRSIG(incep(now[p]), expir(now[p])), e)
       /\ signedOk' = [signedOk EXCEPT ![key[p]] = @ \/ e = NilErr]
  /\ UNCHANGED <<histVars, cacheVars, nsigns, now, todo, sec, appended,
                 fresh, alone>>
  /\ UNCHANGED <<denialVars, rrVars>>

\* DoCheck and DoDelete when Do is called from sign.
SignDoCheck(p) == DoCheck(p) /\ UNCHANGED histVars
SignDoDelete(p) == DoDelete(p) /\ UNCHANGED histVars

\* SignAfterDo with the test of err (lines 97-99) left out.
SignAfterDo_IgnoreErr(p) ==
  /\ ~fatal
  /\ pc[p] = "ret"
  /\ IF ~ret[p].shared
       THEN /\ pc' = [pc EXCEPT ![p] = "insert"]
            /\ UNCHANGED appended
       ELSE /\ pc' = [pc EXCEPT ![p] = "loop"]
            /\ appended' = [appended EXCEPT ![p] =
                   @ \cup {Appended(sec[p], key[p], ret[p].val, FALSE)}]
  /\ cp' = [cp EXCEPT ![p] = None]
  /\ calls' = Collect(calls, cp')
  /\ ret' = [ret EXCEPT ![p] = IF pc'[p] = "insert" THEN @ ELSE NoRet]
  /\ UNCHANGED <<key, gm, gmu, ncalls, histVars, cacheVars,
                 nsigns, now, todo, sec, signedOk, fresh, alone>>
  /\ UNCHANGED <<denialVars, rrVars>>

\* Lines 97-104 after Do has returned sig, err, shared: on an error the
\* loop goes on; a result not shared is to be inserted into the cache
\* first; a shared one is appended (a copy of it).
SignAfterDo(p) ==
  /\ ~fatal
  /\ pc[p] = "ret"
  /\ IF ret[p].err # NilErr
       THEN /\ pc' = [pc EXCEPT ![p] = "loop"]
            /\ UNCHANGED appended
       ELSE IF ~ret[p].shared
         THEN /\ pc' = [pc EXCEPT ![p] = "insert"]
              /\ UNCHANGED appended
         ELSE /\ pc' = [pc EXCEPT ![p] = "loop"]
              /\ appended' = [appended EXCEPT ![p] =
                     @ \cup {Appended(sec[p], key[p], ret[p].val, FALSE)}]
  /\ cp' = [cp EXCEPT ![p] = None]
  /\ calls' = Collect(calls, cp')
  /\ ret' = [ret EXCEPT ![p] = IF pc'[p] = "insert" THEN @ ELSE NoRet]
  /\ UNCHANGED <<key, gm, gmu, ncalls, histVars, cacheVars,
                 nsigns, now, todo, sec, signedOk, fresh, alone>>
  /\ UNCHANGED <<denialVars, rrVars>>

\* cache.insert, line 224: c.Lock().
CacheLock(p) ==
  /\ ~fatal
  /\ pc[p] = "insert"
  /\ cmu.writer = None /\ cmu.readers = {}
  /\ cmu' = [cmu EXCEPT !.writer = p]
  /\ pc' = [pc EXCEPT ![p] = "inserting"]
  /\ UNCHANGED <<key, cp, ret, gm, gmu, calls, ncalls, histVars,
                 clock, cache, fatal, signVars>>
  /\ UNCHANGED <<denialVars, rrVars>>

\* The rest of cache.insert (lines 226-228, with the deferred Unlock): the
\* signature is stored unless the key has one; then line 104.
CacheInsert(p) ==
  /\ ~fatal
  /\ pc[p] = "inserting"
  /\ cache' = IF key[p] \in DOMAIN cache THEN cache
              ELSE [k \in DOMAIN cache \cup {key[p]} |->
                      IF k = key[p] THEN ret[p].val ELSE cache[k]]
  /\ cmu' = [cmu EXCEPT !.writer = None]
  /\ appended' = [appended EXCEPT ![p] =
         @ \cup {Appended(sec[p], key[p], ret[p].val, FALSE)}]
  /\ ret' = [ret EXCEPT ![p] = NoRet]
  /\ pc' = [pc EXCEPT ![p] = "loop"]
  /\ UNCHANGED <<key, cp, gm, gmu, calls, ncalls, histVars, clock, fatal,
                 nsigns, now, todo, sec, signedOk, fresh, alone>>
  /\ UNCHANGED <<denialVars, rrVars>>

\* Lines 133-142 and the return: the message is complete (lines 133-135
\* settle its Truncated flag, see SetTruncated; the OPT record is added)
\* and the caller of sign is free to serve the next request.
SignFinish(p) ==
  /\ ~fatal
  /\ pc[p] = "finish"
  /\ pc' = [pc EXCEPT ![p] = "idle"]
  /\ key' = [key EXCEPT ![p] = "k1"]
  /\ sec' = [sec EXCEPT ![p] = "Answer"]
  /\ appended' = [appended EXCEPT ![p] = {}]
  /\ now' = [now EXCEPT ![p] = 0]
  /\ alone' = [alone EXCEPT ![p] = FALSE]
  /\ fresh' = [fresh EXCEPT ![p] = FALSE]
  /\ UNCHANGED <<cp, ret, gm, gmu, calls, ncalls, histVars, cacheVars,
                 nsigns, todo, signedOk>>
  /\ UNCHANGED <<denialVars, rrVars>>

NextSign ==
  \/ \E p \in SignProcs, m \in Msgs, d \in Steps : SignStart(p, m, d)
  \/ \E p \in SignProcs : SignNext(p)
  \/ \E p \in SignProcs : CacheRLock(p)
  \/ \E p \in SignProcs : SignSearch(p)
  \/ \E p \in SignProcs : CacheRemove(p)
  \/ \E p \in SignProcs : DoLock(p)
  \/ \E p \in SignProcs : SignDoCheck(p)
  \/ \E p \in SignProcs : DoWait(p)
  \/ \E p \in SignProcs : SignFn(p)
  \/ \E p \in SignProcs : DoDone(p)
  \/ \E p \in SignProcs : SignDoDelete(p)
  \/ \E p \in SignProcs : SignAfterDo(p)
  \/ \E p \in SignProcs : CacheLock(p)
  \/ \E p \in SignProcs : CacheInsert(p)
  \/ \E p \in SignProcs : SignFinish(p)

SpecSign == Init /\ [][NextSign]_vars

SpecNSEC == Init /\ [][NextNSEC]_vars

SpecList == Init /\ [][NextList]_vars

\* The state before a call of rrSets with any of the lists RRLists.
InitWithRRs == InitDo /\ InitHist /\ InitSign /\ InitDenial /\ InitRRInput

SpecRR == InitWithRRs /\ [][NextRR]_vars

\* The state before the calls of cache.key for any two of the RRsets
\* KeySets with one owner name and type.
InitWithSets == InitDo /\ InitHist /\ InitSign /\ InitDenial /\ InitKeyInput

SpecKey == InitWithSets /\ [][NextKey]_vars

\* The state with any message at line 133 of sign.
InitWithTrunc == InitDo /\ InitHist /\ InitSign /\ InitDenial /\ InitTruncInput

SpecTrunc == InitWithTrunc /\ [][NextTrunc]_vars

\* --------------------------------------- properties of the denial index
\* The names registry l holds.
Names(l) == {denial[l][i].name : i \in 1..Len(denial[l])}

\* How many registrations there are at the moment of services whose name at
\* depth l is x.
Registrations(x, l) ==
  Cardinality({e \in Services \X (1..MaxEvents) :
                 e[2] <= registered[e[1]] /\ DerivedName(e[1], l) = x})

\* x lies strictly between two names of registry l.
Between(x, l) ==
  /\ \E a \in Names(l) : StrLess(a, x)
  /\ \E b \in Names(l) : StrLess(x, b)

\* The greatest name of registry l below x, and the least one above x.
Pred(x, l) ==
  CHOOSE a \in Names(l) :
    StrLess(a, x) /\ \A c \in Names(l) : StrLess(c, x) => ~StrLess(a, c)
Succ(x, l) ==
  CHOOSE b \in Names(l) :
    StrLess(x, b) /\ \A c \in Names(l) : StrLess(x, c) => ~StrLess(c, b)

\* C6, as stated: after any sequence of addServiceNSEC and removeServiceNSEC
\* calls (removeServiceNSEC for registered services only), at each depth the
\* reference count of a name is the number of registered services with that
\* name at that depth, and a name of no registered service is absent.
C6_ReferenceCounts ==
  \A l \in Depths : \A sv \in Services :
    LET x == DerivedName(sv, l)
        n == Registrations(x, l)
    IN IF n = 0
         THEN x \notin Names(l)
         ELSE \E i \in 1..Len(denial[l]) : denial[l][i] = Ref(x, n)

\* C7, as stated: for a name x strictly between two names of registry l,
\* search(x, l) returns the greatest registered name below x and the least
\* registered name above x, and neither is x.
C7_SearchNeighbours ==
  (found.called /\ Between(found.x, found.l)) =>
    /\ ~found.res.panic
    /\ found.res.prev = Pred(found.x, found.l)
    /\ found.res.next = Succ(found.x, found.l)
    /\ found.res.prev # found.x
    /\ found.res.next # found.x

\* C8, as stated: for a name x that sorts before the first entry of a
\* non-empty registry l, search(x, l) returns an empty predecessor and the
\* first entry as successor.
C8_SearchBelowFirst ==
  (/\ found.called
   /\ Len(denial[found.l]) > 0
   /\ StrLess(found.x, denial[found.l][1].name)) =>
    found.res = Found(Empty, denial[found.l][1].name)

\* C9, as stated: for a query name with k >= 1 labels below the apex whose
\* key (the min(k,4) labels nearest the apex) is not registered and lies
\* between adjacent names P < Q of registry min(k,4), newNSEC returns an
\* NSEC with owner P + apex and next name Q + apex.
C9_NsecNeighbours ==
  nsec.called =>
    LET k == Len(nsec.qlabels) - Len(DomainLabels)
        l == IF k < 4 THEN k ELSE 4
        x == Join(SubSeq(nsec.qlabels, k - l + 1, k))
    IN (k >= 1 /\ x \notin Names(l) /\ Between(x, l)) =>
         /\ ~nsec.rr.panic
         /\ nsec.rr.Name = Pred(x, l) \o Domain \o Dot
         /\ nsec.rr.NextDomain = Succ(x, l) \o Domain \o Dot

\* What C13 says of name x in registry l: present with reference count
\* inserted - removed when that is positive, absent when it is zero.
CountIs(x, l) ==
  IF removed[l][x] < inserted[l][x]
    THEN \E i \in 1..Len(denial[l]) :
           denial[l][i] = Ref(x, inserted[l][x] - removed[l][x])
    ELSE x \notin Names(l)

\* C13, as stated: after any sequence of insert and remove calls in which x
\* was inserted k times and removed j <= k times at depth l, x is in
\* registry l with reference count k - j when j < k and absent when j = k.
C13_CountIsInsertsLessRemoves ==
  \A l \in Depths : \A x \in ListNames :
    removed[l][x] <= inserted[l][x] => CountIs(x, l)

\* C13, amended: the same, for sequences in which every remove(x, l) was
\* called when x had been inserted more often than removed (a remove of an
\* absent name changes nothing and is not made up for by a later insert).
C13_CountWhenRemovedWhilePresent ==
  \A l \in Depths : \A x \in ListNames :
    ~early[l][x] => CountIs(x, l)

\* A name was inserted twice and then removed twice, and is absent.
C13_Witness ==
  \E l \in Depths : \E x \in ListNames :
    /\ inserted[l][x] = 2 /\ removed[l][x] = 2 /\ ~early[l][x]
    /\ x \notin Names(l)

\* C16: after any sequence of insert and remove calls each registry is in
\* strictly ascending order by name (so holds a name at most once) and
\* every entry has reference count >= 1.
C16_RegistriesSorted ==
  \A l \in Depths :
    /\ \A i \in 1..(Len(denial[l]) - 1) :
         StrLess(denial[l][i].name, denial[l][i + 1].name)
    /\ \A i, j \in 1..Len(denial[l]) :
         denial[l][i].name = denial[l][j].name => i = j
    /\ \A i \in 1..Len(denial[l]) : denial[l][i].reference >= 1

\* A registry that got a name between two it held and lost it again: "a"
\* and "c" are left, in this order.
C16_Witness ==
  \E l \in Depths :
    /\ Len(denial[l]) = 2
    /\ denial[l][1].name = La /\ denial[l][2].name = Lc
    /\ inserted[l][Lb] = 1 /\ removed[l][Lb] = 1 /\ ~early[l][Lb]

\* C19, as stated: for every registry state (an empty registry included)
\* and every name x (one that sorts after the last entry included),
\* search(x, l) returns a pair of names and reads no index outside
\* 0..len-1 of registry l, that is, it does not end in the runtime's
\* index-out-of-range panic.
C19_SearchInBounds ==
  (found.called /\ found.l \in Depths) => ~found.res.panic

\* C20, as stated: for every query name at or below the zone apex, the apex
\* itself included, newNSEC calls denial.search with a depth in 1..4 and a
\* key of exactly that many labels, so it addresses one of the four
\* registries.
C20_NsecDepthInRange ==
  (nsec.called /\ Len(nsec.qlabels) >= Len(DomainLabels)) =>
    Len(NsecKey(nsec.qlabels)) \in Depths

\* ----------------------------------------------------- properties of sign
\* Goroutine p is between the cache.search and the append (or the continue)
\* of the loop body for the RRset with fingerprint k.
Processing(p, k) ==
  /\ key[p] = k
  /\ pc[p] \in {"search", "searching", "remove", "lock1", "check", "wait", "fn",
                "done", "lock2", "delete", "ret", "insert", "inserting"}

\* C3, as stated: once a signing through inflight.Do has succeeded for a
\* fingerprint (and the fingerprint was not evicted since) and no goroutine
\* is still processing an RRset with that fingerprint, the cache holds an
\* entry for it, whether or not waiters joined the flight.
C3_SignedThenCached ==
  \A k \in Keys :
    (signedOk[k] /\ \A p \in Procs : ~Processing(p, k)) => k \in DOMAIN cache

\* C4, as stated: a signature sign appended from the cache at time now
\* expires at least 24 hours after now, and its inception is not after now.
C4_CachedHasDayLeft ==
  \A p \in Procs : \A a \in appended[p] :
    a.cached => /\ a.sig.Expiration >= now[p] + Day
                /\ a.sig.Inception <= now[p]

\* C5, as stated: a sign call that runs with no other sign call in progress
\* (so after the sign call that stored the signature) and finds a cached signature with at least 24 hours of validity left at
\* its now performs no signing for that RRset and appends the cached
\* signature.
C5_FreshEntryReused ==
  \A p \in Procs :
    (fresh[p] /\ alone[p]) =>
      /\ pc[p] = "loop"
      /\ \E a \in appended[p] : a.key = key[p] /\ a.sec = sec[p] /\ a.cached

\* C11, as stated: whenever a goroutine is at the delete of sigCache.remove
\* (line 220), no other goroutine is inside search (holding the read lock),
\* inside insert (holding the write lock) or at the delete of another
\* remove.
C11_RemoveExcludesOthers ==
  \A p \in Procs :
    pc[p] = "remove" =>
      /\ cmu.readers \ {p} = {}
      /\ cmu.writer \in {None, p}
      /\ \A q \in Procs \ {p} : pc[q] # "remove"

\* C14: when the fn of a flight fails, every caller of the flight gets the
\* error from Do; and a caller that got an error from Do goes on with the
\* next RRset of the response (the rest of the RRsets still to be
\* processed) with no signature appended and nothing stored in the cache.
C14_FailedSignSkipped ==
  /\ [](\A p \in Procs :
          (pc[p] = "ret" /\ calls[cp[p]].err # NilErr) => ret[p].err = calls[cp[p]].err)
  /\ [][\A p \in Procs :
          (pc[p] = "ret" /\ ret[p].err # NilErr /\ pc'[p] # "ret") =>
            /\ pc'[p] = "loop"
            /\ appended'[p] = appended[p]
            /\ cache' = cache
            /\ todo'[p] = todo[p] /\ sec'[p] = sec[p]]_vars

\* A flight for an RRset of the answer section failed with both sign calls
\* in it: one holds the error Do returned, the other has gone on to the
\* rest of its loop with no signature appended, and the cache has no
\* entry for the RRset.
C14_Witness ==
  \E p, q \in Procs :
    /\ p # q /\ key[p] = key[q]
    /\ pc[q] = "ret" /\ ret[q].shared /\ ret[q].err = SignErr
    /\ pc[p] = "loop" /\ sec[p] = "Answer" /\ now[p] # 0
    /\ key[p] \notin todo[p].Answer
    /\ appended[p] = {}
    /\ key[p] \notin DOMAIN cache

\* C17, as stated: sign computes the truncation flag (assembled message
\* length > bufsize) only when 512 <= bufsize <= 4096; for a bufsize
\* outside that range the message's Truncated flag is left as it was.
C17_TruncationOnlyInRange ==
  trunc.called =>
    trunc.Truncated =
      IF 512 <= trunc.bufsize /\ trunc.bufsize <= 4096
        THEN trunc.len > trunc.bufsize
        ELSE trunc.before

\* ---------------------------------------------- properties of sigCache.key
\* The rdata of a record the fingerprint is to depend on: the SOA serial;
\* the SRV priority, weight, port and target; the address bytes.
RelevantRdata(r) ==
  CASE r.Rrtype = "SOA" -> <<r.Serial>>
    [] r.Rrtype = "SRV" -> <<r.Priority, r.Weight, r.Port, r.Target>>
    [] r.Rrtype = "A" -> <<r.A>>
    [] r.Rrtype = "AAAA" -> <<r.AAAA>>

RelevantOf(list) == [i \in 1..Len(list) |-> RelevantRdata(list[i])]

\* C12, as stated: for two RRsets with the same owner name and type,
\* cache.key returns equal fingerprints if and only if their relevant rdata
\* are equal; so sets that differ in TTL only have one fingerprint, and two
\* SRV sets that differ in port only have different ones.
C12_FingerprintOfRdata ==
  prints.called =>
    ((prints.a = prints.b) <=> (RelevantOf(sets[1]) = RelevantOf(sets[2])))

\* --------------------------------------------------- properties of rrSets
\* The records of list with key k, in the order of list.
WithKey(list, k) == SelectSeq(list, LAMBDA r : RRsetOf(r) = k)

\* C10, as stated: rrSets returns one group for each (name, class, type) of
\* the input, holding every input record with that key, so that every input
\* record is in exactly one group, the one of its own key, and none is
\* dropped.
C10_EveryRecordGrouped ==
  groups.called =>
    /\ DOMAIN groups.res.m = {RRsetOf(rrs[i]) : i \in 1..Len(rrs)}
    /\ \A k \in DOMAIN groups.res.m : Elems(groups.res.m[k]) = WithKey(rrs, k)

====
